---- MODULE Spec2Model ----
(***************************************************************************)
(* blinkpy/helpers/util.py: the Throttle decorator and backoff_seconds.    *)
(*                                                                         *)
(* Throttle.__call__.wrapper is modelled line by line (L163..L171), one    *)
(* action per access to shared state, for a set of callers sharing one     *)
(* Throttle instance.  Spec lets the callers use the wrapper one at a time (an      *)
(* asyncio event loop: the wrapper never suspends, the coroutines it hands *)
(* out run later); ConcSpec lets wrapper invocations of different threads  *)
(* interleave between statements.  BackoffSpec applies backoff_seconds to  *)
(* bounded inputs, in binary floating point of FloatPrec significant bits. *)
(***************************************************************************)
EXTENDS Integers, FiniteSets, TLC

\* ------------------------------------------------------------- bounds
MaxClock == 4
MaxThrottleTime == 2
MaxRetry == 3
MaxDefaultTime == 3
FloatPrec == 4

Callers == {"c1", "c2"}
OpValues == {"v1"}

Times == 0..MaxClock
Unset == 0 - 1

\* ------------------------------------------------------------- state
VARIABLES
    clock,            \* int(time.time()) as the next sample would see it
    throttle_time,    \* self.throttle_time
    opKind,           \* the decorated method: a plain function or a coroutine function
    last_call,        \* self.last_call
    pc,               \* per caller: the statement of wrapper it is at
    kwForce,          \* per caller: kwargs' "force" entry ("absent", "True", "False")
    force,            \* wrapper local
    now,              \* wrapper local
    last_call_delta,  \* wrapper local
    result,           \* wrapper local
    received,         \* what the wrapper call handed to its caller
    outcome,          \* what the step just taken delivered to a caller at the end of a call
    execCount,        \* history: executions of method in the caller's current invocation
    opArgs,           \* history: the arguments method was last executed with
    stored,           \* history: the value the caller's invocation stored to last_call
    overlap,          \* history: another invocation was inside wrapper during this one
    nInvocations,     \* history: wrapper invocations so far, capped at 2
    lastNF,           \* history: invocation time of the latest non-forced execution
    lastForcedOK,     \* history: invocation time of the latest forced execution that returned
    retry, default_time, jitter, delay, bpc   \* backoff_seconds: inputs, draw, result

throttleVars == <<clock, throttle_time, opKind, last_call, pc, kwForce, force,
                  now, last_call_delta, result, received, outcome, execCount, opArgs,
                  stored, overlap, nInvocations, lastNF, lastForcedOK>>
backoffVars == <<retry, default_time, jitter, delay, bpc>>
vars == <<throttleVars, backoffVars>>

\* ------------------------------------------------------------- values
KwForceValues == {"absent", "True", "False"}

\* Objects a call can hand back.
Obj(k, o, v) == [kind |-> k, of |-> o, val |-> v]
NoObj == Obj("none", "none", "None")
NoArgs == [force |-> "none"]
Outcome(p, h, v) == [to |-> p, how |-> h, val |-> v]
NoOutcome == Outcome("none", "none", "unset")

\* L156-158 async def throttle_method(): return None  -- calling it makes a coroutine
throttle_method == Obj("coro", "throttle_method", "None")

\* Throttle.__init__: self.last_call = 0
InitLastCall == 0

\* L163 kwargs.get("force", False)
KwargsGetForce(kw) == kw = "True"

\* L165 last_call_delta = now - self.last_call
Delta(n, lc) == n - lc

\* faulty guards: force ignored; the boundary let through
Permitted_NoForce(f, d) == d > throttle_time
Permitted_AtLeast(f, d) == f \/ d >= throttle_time

\* L166 if force or last_call_delta > self.throttle_time
Permitted(f, d) == f \/ d > throttle_time

InWrapperPcs == {"L165", "L167", "L168", "L169", "L171"}
InWrapper(p) == pc[p] \in InWrapperPcs

\* ------------------------------------------------------------- Throttle
ThrottleInit ==
    /\ clock = 0
    /\ throttle_time \in 1..MaxThrottleTime
    /\ opKind \in {"sync", "async"}
    /\ last_call = InitLastCall
    /\ pc = [p \in Callers |-> "idle"]
    /\ kwForce = [p \in Callers |-> "absent"]
    /\ force = [p \in Callers |-> FALSE]
    /\ now = [p \in Callers |-> 0]
    /\ last_call_delta = [p \in Callers |-> 0]
    /\ result = [p \in Callers |-> NoObj]
    /\ received = [p \in Callers |-> NoObj]
    /\ outcome = NoOutcome
    /\ execCount = [p \in Callers |-> 0]
    /\ opArgs = [p \in Callers |-> NoArgs]
    /\ stored = [p \in Callers |-> Unset]
    /\ overlap = [p \in Callers |-> FALSE]
    /\ nInvocations = 0
    /\ lastNF = Unset
    /\ lastForcedOK = Unset

BackoffIdle ==
    /\ retry = 0 /\ default_time = 1 /\ jitter = 0 /\ delay = 0 /\ bpc = "off"

\* time.time() advances (never backwards)
Tick ==
    /\ clock < MaxClock
    /\ clock' = clock + 1
    /\ UNCHANGED <<throttle_time, opKind, last_call, pc, kwForce, force, now,
                   last_call_delta, result, received, execCount, opArgs,
                   stored, overlap, nInvocations, lastNF, lastForcedOK>>
    /\ outcome' = NoOutcome
    /\ UNCHANGED backoffVars

\* wrapper(*args, **kwargs) is entered:
\*   L163 force = kwargs.get("force", False)
\*   L164 now = int(time.time())
Invoke(p) ==
    /\ pc[p] = "idle"
    /\ \E kw \in KwForceValues :
          /\ kwForce' = [kwForce EXCEPT ![p] = kw]
          /\ force' = [force EXCEPT ![p] = KwargsGetForce(kw)]
    /\ now' = [now EXCEPT ![p] = clock]
    /\ pc' = [pc EXCEPT ![p] = "L165"]
    /\ received' = [received EXCEPT ![p] = NoObj]
    /\ execCount' = [execCount EXCEPT ![p] = 0]
    /\ opArgs' = [opArgs EXCEPT ![p] = NoArgs]
    /\ stored' = [stored EXCEPT ![p] = Unset]
    /\ overlap' = [q \in Callers |->
                     IF q = p THEN \E r \in Callers \ {p} : InWrapper(r)
                     ELSE IF InWrapper(q) THEN TRUE ELSE overlap[q]]
    /\ nInvocations' = IF nInvocations < 2 THEN nInvocations + 1 ELSE 2
    /\ UNCHANGED <<clock, throttle_time, opKind, last_call, last_call_delta, result,
                   lastNF, lastForcedOK>>
    /\ outcome' = NoOutcome
    /\ UNCHANGED backoffVars

\* the same, for callers that never enter the wrapper while another is inside it
SeqInvoke(p) ==
    /\ \A q \in Callers \ {p} : ~InWrapper(q)
    /\ Invoke(p)

\* the wrapper's frame ends: its arguments and locals are gone
FrameGone(p) ==
    /\ kwForce' = [kwForce EXCEPT ![p] = "absent"]
    /\ force' = [force EXCEPT ![p] = FALSE]
    /\ now' = [now EXCEPT ![p] = 0]
    /\ last_call_delta' = [last_call_delta EXCEPT ![p] = 0]
    /\ result' = [result EXCEPT ![p] = NoObj]
    /\ overlap' = [overlap EXCEPT ![p] = FALSE]
    /\ execCount' = [execCount EXCEPT ![p] = 0]
    /\ opArgs' = [opArgs EXCEPT ![p] = NoArgs]

\* L165 last_call_delta = now - self.last_call
\* L166 if force or last_call_delta > self.throttle_time:
ReadLastCall(p) ==
    /\ pc[p] = "L165"
    /\ last_call_delta' = [last_call_delta EXCEPT ![p] = Delta(now[p], last_call)]
    /\ pc' = [pc EXCEPT ![p] =
                IF Permitted(force[p], Delta(now[p], last_call)) THEN "L167" ELSE "L171"]
    /\ UNCHANGED <<clock, throttle_time, opKind, last_call, kwForce, force, now, result,
                   received, execCount, opArgs, stored, overlap, nInvocations,
                   lastNF, lastForcedOK>>
    /\ outcome' = NoOutcome
    /\ UNCHANGED backoffVars

\* L171 return throttle_method()
ReturnThrottled(p) ==
    /\ pc[p] = "L171"
    /\ received' = [received EXCEPT ![p] = throttle_method]
    /\ pc' = [pc EXCEPT ![p] = "returned"]
    /\ FrameGone(p)
    /\ UNCHANGED <<clock, throttle_time, opKind, last_call, stored,
                   nInvocations, lastNF, lastForcedOK>>
    /\ outcome' = NoOutcome
    /\ UNCHANGED backoffVars

\* the arguments method(*args, **kwargs) is called with
PassedArgs(p) == [force |-> kwForce[p]]

\* history of one execution of method
Executed(p, normal) ==
    /\ lastNF' = IF force[p] THEN lastNF ELSE now[p]
    /\ lastForcedOK' = IF force[p] /\ normal THEN now[p] ELSE lastForcedOK

\* L167 result = method(*args, **kwargs)
\*   a plain function runs here: it returns a value or raises, and a raise leaves
\*   the wrapper at once (L168 and L169 are skipped);
\*   a coroutine function only builds its coroutine here: its body runs when the
\*   caller awaits what the wrapper returned.
RunMethod(p) ==
    /\ \/ /\ opKind = "sync"
          /\ \E v \in OpValues : result' = [result EXCEPT ![p] = Obj("plain", "method", v)]
          /\ Executed(p, TRUE)
          /\ execCount' = [execCount EXCEPT ![p] = @ + 1]
          /\ opArgs' = [opArgs EXCEPT ![p] = PassedArgs(p)]
          /\ pc' = [pc EXCEPT ![p] = "L168"]
          /\ outcome' = NoOutcome
          /\ UNCHANGED <<received, kwForce, force, now, last_call_delta, overlap>>
       \/ /\ opKind = "sync"
          /\ outcome' = Outcome(p, "raised", "OpError")
          /\ Executed(p, FALSE)
          /\ pc' = [pc EXCEPT ![p] = "idle"]
          /\ FrameGone(p)
          /\ UNCHANGED received
       \/ /\ opKind = "async"
          /\ \E v \in OpValues : result' = [result EXCEPT ![p] = Obj("coro", "method", v)]
          /\ Executed(p, TRUE)
          /\ execCount' = [execCount EXCEPT ![p] = @ + 1]
          /\ opArgs' = [opArgs EXCEPT ![p] = PassedArgs(p)]
          /\ pc' = [pc EXCEPT ![p] = "L168"]
          /\ outcome' = NoOutcome
          /\ UNCHANGED <<received, kwForce, force, now, last_call_delta, overlap>>
    /\ UNCHANGED <<clock, throttle_time, opKind, last_call, stored, nInvocations>>
    /\ UNCHANGED backoffVars

\* a locked variant: method is called only while no other caller is between guard and store
CallMethod_Locked(p) ==
    /\ pc[p] = "L167"
    /\ \A q \in Callers \ {p} : pc[q] \notin {"L167", "L168"}
    /\ RunMethod(p)

CallMethod(p) ==
    /\ pc[p] = "L167"
    /\ RunMethod(p)

\* faulty stores: the delta is stored; nothing new is stored; a forced call
\* does not restart the window
NewLastCall_Delta(p) == last_call_delta[p]
NewLastCall_Stale(p) == last_call
NewLastCall_NotForced(p) == IF force[p] THEN last_call ELSE now[p]

\* the value L168 stores
NewLastCall(p) == now[p]

\* L168 self.last_call = now
SetLastCall(p) ==
    /\ pc[p] = "L168"
    /\ last_call' = NewLastCall(p)
    /\ stored' = [stored EXCEPT ![p] = NewLastCall(p)]
    /\ pc' = [pc EXCEPT ![p] = "L169"]
    /\ UNCHANGED <<clock, throttle_time, opKind, kwForce, force, now, last_call_delta,
                   result, received, execCount, opArgs, overlap, nInvocations,
                   lastNF, lastForcedOK>>
    /\ outcome' = NoOutcome
    /\ UNCHANGED backoffVars

\* the object L169 returns
Returned(p) == result[p]

\* L169 return result
ReturnResult(p) ==
    /\ pc[p] = "L169"
    /\ received' = [received EXCEPT ![p] = Returned(p)]
    /\ pc' = [pc EXCEPT ![p] = "returned"]
    /\ FrameGone(p)
    /\ UNCHANGED <<clock, throttle_time, opKind, last_call, stored,
                   nInvocations, lastNF, lastForcedOK>>
    /\ outcome' = NoOutcome
    /\ UNCHANGED backoffVars

\* The caller uses what it received: a plain value as it is; a coroutine is awaited.
\* throttle_method's coroutine returns None; method's coroutine completes with its
\* value, fails with method's error, or is cancelled from outside.
Resolve(p) ==
    /\ pc[p] = "returned"
    /\ \/ /\ received[p].kind = "plain"
          /\ outcome' = Outcome(p, "used", received[p].val)
       \/ /\ received[p].kind = "coro" /\ received[p].of = "throttle_method"
          /\ outcome' = Outcome(p, "awaited", received[p].val)
       \/ /\ received[p].kind = "coro" /\ received[p].of = "method"
          /\ outcome' = Outcome(p, "awaited", received[p].val)
       \/ /\ received[p].kind = "coro" /\ received[p].of = "method"
          /\ outcome' = Outcome(p, "awaited", "OpError")
       \/ /\ received[p].kind = "coro" /\ received[p].of = "method"
          /\ outcome' = Outcome(p, "awaited", "Cancelled")
    /\ pc' = [pc EXCEPT ![p] = "idle"]
    /\ received' = [received EXCEPT ![p] = NoObj]
    /\ stored' = [stored EXCEPT ![p] = Unset]
    /\ UNCHANGED <<clock, throttle_time, opKind, last_call, kwForce, force, now,
                   last_call_delta, result, execCount, opArgs, overlap,
                   nInvocations, lastNF, lastForcedOK>>
    /\ UNCHANGED backoffVars

Init == ThrottleInit /\ BackoffIdle

Next ==
    \/ Tick
    \/ \E p \in Callers : SeqInvoke(p)
    \/ \E p \in Callers : ReadLastCall(p)
    \/ \E p \in Callers : CallMethod(p)
    \/ \E p \in Callers : SetLastCall(p)
    \/ \E p \in Callers : ReturnResult(p)
    \/ \E p \in Callers : ReturnThrottled(p)
    \/ \E p \in Callers : Resolve(p)

Spec == Init /\ [][Next]_vars

ConcNext ==
    \/ Tick
    \/ \E p \in Callers : Invoke(p)
    \/ \E p \in Callers : ReadLastCall(p)
    \/ \E p \in Callers : CallMethod(p)
    \/ \E p \in Callers : SetLastCall(p)
    \/ \E p \in Callers : ReturnResult(p)
    \/ \E p \in Callers : ReturnThrottled(p)
    \/ \E p \in Callers : Resolve(p)

ConcSpec == Init /\ [][ConcNext]_vars

\* ------------------------------------------------------------- backoff_seconds
\* Numbers are counted in units of 2^-FloatPrec, the grain of random.random().
RECURSIVE Pow2(_)
Pow2(n) == IF n = 0 THEN 1 ELSE 2 * Pow2(n - 1)

One == Pow2(FloatPrec)

\* floor(log2(n)) for n >= 1
RECURSIVE Log2(_)
Log2(n) == IF n < 2 THEN 0 ELSE 1 + Log2(n \div 2)

\* the nearest float to n units (FloatPrec significant bits, ties to even)
RoundFloat(n) ==
    IF n < One THEN n
    ELSE LET s == Pow2(Log2(n) - FloatPrec + 1)
             q == n \div s
             r == n % s
         IN  IF 2 * r < s THEN q * s
             ELSE IF 2 * r > s THEN (q + 1) * s
             ELSE IF q % 2 = 0 THEN q * s ELSE (q + 1) * s

\* a faulty exponent: 2*retry for 2**retry
Deterministic_Linear(r, b) == b * 2 * r

\* default_time * 2**retry, an int
Deterministic(r, b) == b * Pow2(r)

\* random.uniform(0, 1) == 0 + (1 - 0) * random.random(): k / 2^FloatPrec, 0 <= k < 2^FloatPrec
UniformDraws == 0..(One - 1)

\* int + float: the int is converted to float, the sum is rounded to a float
FloatAdd(i, f) == RoundFloat(RoundFloat(i * One) + f)

\* L106 return default_time * 2**retry + random.uniform(0, 1)
BackoffValue(r, b, j) == FloatAdd(Deterministic(r, b), j)

BackoffInit ==
    /\ retry \in 0..MaxRetry
    /\ default_time \in 1..MaxDefaultTime
    /\ jitter = 0 /\ delay = 0 /\ bpc = "call"
    /\ clock = 0 /\ throttle_time = 1 /\ opKind = "sync" /\ last_call = InitLastCall
    /\ pc = [p \in Callers |-> "idle"]
    /\ kwForce = [p \in Callers |-> "absent"]
    /\ force = [p \in Callers |-> FALSE]
    /\ now = [p \in Callers |-> 0]
    /\ last_call_delta = [p \in Callers |-> 0]
    /\ result = [p \in Callers |-> NoObj]
    /\ received = [p \in Callers |-> NoObj]
    /\ outcome = NoOutcome
    /\ execCount = [p \in Callers |-> 0]
    /\ opArgs = [p \in Callers |-> NoArgs]
    /\ stored = [p \in Callers |-> Unset]
    /\ overlap = [p \in Callers |-> FALSE]
    /\ nInvocations = 0
    /\ lastNF = Unset
    /\ lastForcedOK = Unset

\* backoff_seconds(retry, default_time)
backoff_seconds ==
    /\ bpc = "call"
    /\ \E j \in UniformDraws :
          /\ jitter' = j
          /\ delay' = BackoffValue(retry, default_time, j)
    /\ bpc' = "done"
    /\ UNCHANGED <<retry, default_time>>
    /\ UNCHANGED throttleVars

BackoffNext == backoff_seconds

BackoffSpec == BackoffInit /\ [][BackoffNext]_vars

\* ------------------------------------------------------------- claims
PastGuardPcs == {"L167", "L168", "L169"}
ForceAsked(p) == kwForce[p] = "True"
Sentinel == [kind |-> "coro", of |-> "throttle_method", val |-> "None"]

C1_Inv ==
    \A p \in Callers :
       /\ pc[p] = "L171" => ~ForceAsked(p) /\ now[p] - last_call <= throttle_time
       /\ pc[p] \in {"L168", "L169"} =>
             /\ execCount[p] = 1
             /\ opArgs[p] = [force |-> kwForce[p]]
             /\ result[p].of = "method"
       /\ pc[p] = "L169" => last_call = now[p] /\ stored[p] = now[p]

C1_Return ==
    \A p \in Callers :
       (pc[p] = "L169" /\ pc'[p] # "L169") =>
           /\ pc'[p] = "returned"
           /\ received'[p] = result[p]
           /\ last_call' = now[p]

\* C1: an invocation with force true, or with now - last_call > throttle_time, is
\* never sent down the throttled branch; it executes method exactly once with the
\* caller's arguments, stores its own now to last_call, and hands method's result
\* to the invoker (callers using the wrapper one at a time, method returning).
C1_PermittedRunsOp == []C1_Inv /\ [][C1_Return]_vars

\* a forced invocation inside the cooldown window has executed method and stored now
C1_Witness ==
    \E p \in Callers :
       /\ pc[p] = "L169" /\ ForceAsked(p) /\ nInvocations = 2
       /\ last_call_delta[p] >= 0 /\ last_call_delta[p] <= throttle_time
       /\ execCount[p] = 1 /\ last_call = now[p]

C2_Inv ==
    \A p \in Callers :
       /\ pc[p] \in {"L167", "L168"} =>
             ForceAsked(p) \/ now[p] - last_call > throttle_time
       /\ pc[p] = "L171" => execCount[p] = 0 /\ stored[p] = Unset

C2_Step ==
    \A p \in Callers :
       /\ (pc[p] = "L165" /\ pc'[p] = "L171") => last_call' = last_call
       /\ (pc[p] = "L171" /\ pc'[p] # "L171") =>
             /\ pc'[p] = "returned"
             /\ received'[p] = Sentinel
             /\ last_call' = last_call
             /\ stored'[p] = Unset
       /\ (pc[p] = "returned" /\ received[p] = Sentinel /\ pc'[p] # "returned") =>
             /\ outcome' = [to |-> p, how |-> "awaited", val |-> "None"]
             /\ last_call' = last_call

\* C2: an invocation with force false and now - last_call <= throttle_time (the
\* boundary now - last_call = throttle_time included) does not execute method,
\* hands the invoker throttle_method's coroutine, which yields None, and leaves
\* last_call as it was.
C2_ThrottledSkipsOp == []C2_Inv /\ [][C2_Step]_vars

\* a non-forced invocation exactly throttle_time after an earlier stored call is
\* on the throttled branch
C2_Witness ==
    \E p \in Callers :
       /\ pc[p] = "L171" /\ ~ForceAsked(p)
       /\ last_call > 0 /\ now[p] - last_call = throttle_time
       /\ execCount[p] = 0

\* C3: when a permitted invocation's method fails, the error reaches the invoker
\* and last_call was still updated to the invocation's now.
C3_FailureCountsAgainstCooldown ==
    [][\A p \in Callers :
          /\ (pc[p] = "L167" /\ pc'[p] = "idle") =>
                /\ outcome' = [to |-> p, how |-> "raised", val |-> "OpError"]
                /\ last_call' = now[p]
          /\ (pc[p] = "returned" /\ pc'[p] = "idle" /\ outcome'.val = "OpError") =>
                stored[p] # Unset]_vars

\* C4: the first invocation on a fresh Throttle, with force false, is never
\* throttled, whatever throttle_time and the clock are.
C4_FirstCallAlwaysRuns ==
    \A p \in Callers :
       (nInvocations = 1 /\ ~ForceAsked(p)) => pc[p] # "L171"

\* C5: any two executions of method triggered by non-forced invocations have
\* invocation times more than throttle_time apart (callers using the wrapper one
\* at a time under a non-decreasing clock: the latest earlier one is the nearest).
C5_MinimumGap ==
    [][\A p \in Callers :
          (pc[p] = "L167" /\ pc'[p] # "L167" /\ ~ForceAsked(p) /\ lastNF # Unset) =>
              now[p] - lastNF > throttle_time]_vars

\* C6 as stated: b*2^retry <= d < b*2^retry + 1 (half-open above).
C6_HalfOpenRange ==
    bpc = "done" =>
       /\ default_time * Pow2(retry) * One <= delay
       /\ delay < (default_time * Pow2(retry) + 1) * One

\* C6: for retry >= 0 and a positive integer default_time whose product
\* default_time * 2^retry is a float, backoff_seconds returns d with
\* b*2^retry <= d <= b*2^retry + 1: the float sum can round up to the upper end
\* (backoff_seconds(0) in [1,2], backoff_seconds(1) in [2,3]); nothing clamps it
\* as retry grows.
C6_ClosedRange ==
    bpc = "done" =>
       /\ default_time * Pow2(retry) * One <= delay
       /\ delay <= (default_time * Pow2(retry) + 1) * One

\* backoff_seconds(1) returned more than 2 and less than 3 from a non-zero draw
C6_Witness ==
    /\ bpc = "done" /\ retry = 1 /\ default_time = 1 /\ jitter > 0
    /\ delay > 2 * One /\ delay < 3 * One

C7_Write(p) == pc[p] = "L168" /\ pc'[p] = "L169"

\* C7 as stated: no step, under any interleaving, lowers last_call.
C7_Monotone == [][last_call' >= last_call]_vars

\* C7: under a non-decreasing clock, last_call changes only at L168, and the L168
\* of an invocation that no other invocation overlapped never stores a value
\* smaller than the one it replaces.
C7_MonotoneWithoutOverlap ==
    [][/\ \A p \in Callers : (C7_Write(p) /\ ~overlap[p]) => last_call' >= last_call
       /\ (\A p \in Callers : ~C7_Write(p)) => last_call' = last_call]_vars

\* an invocation that nothing overlapped has raised last_call to its now
C7_Witness ==
    \E p \in Callers :
       /\ pc[p] = "L169" /\ ~overlap[p] /\ nInvocations = 2
       /\ last_call = now[p] /\ last_call_delta[p] > 0 /\ last_call_delta[p] < now[p]

SameRead(p, q) == now[p] - last_call_delta[p] = now[q] - last_call_delta[q]

\* C8: nothing excludes a second caller between the read at L165 and the store at
\* L168: whenever two non-forced invocations have read the same last_call and
\* both passed the guard, the one still before its method call can make it, also
\* while the other has executed method and not yet stored.
C8_NoMutualExclusion ==
    \A p \in Callers : \A q \in Callers \ {p} :
       (/\ pc[p] = "L167" /\ pc[q] \in {"L167", "L168"}
        /\ ~force[p] /\ ~force[q]
        /\ SameRead(p, q))
       => ENABLED CallMethod(p)

\* two non-forced invocations read the same stale last_call, both passed the
\* guard and both executed method, within throttle_time of each other
C8_Witness ==
    \E p \in Callers : \E q \in Callers \ {p} :
       /\ pc[p] = "L168" /\ pc[q] = "L168"
       /\ ~force[p] /\ ~force[q]
       /\ execCount[p] = 1 /\ execCount[q] = 1
       /\ SameRead(p, q)
       /\ last_call = now[p] - last_call_delta[p]
       /\ now[q] - now[p] >= 0 /\ now[q] - now[p] <= throttle_time

InFlight(p) ==
    /\ pc[p] = "returned"
    /\ received[p].kind = "coro" /\ received[p].of = "method"

C9_Inv ==
    opKind = "async" =>
       \A p \in Callers :
          /\ pc[p] = "L169" => last_call = now[p] /\ stored[p] = now[p]
          /\ InFlight(p) =>
                /\ stored[p] # Unset /\ last_call >= stored[p]
                /\ \A q \in Callers \ {p} :
                      (pc[q] \in PastGuardPcs /\ ~ForceAsked(q)) =>
                          now[q] - stored[p] > throttle_time

C9_Step ==
    opKind = "async" =>
       \A p \in Callers :
          /\ (pc[p] = "L169" /\ pc'[p] = "returned") =>
                InFlight(p)' /\ stored'[p] = now[p] /\ last_call' = now[p]
          /\ (InFlight(p) /\ pc'[p] # "returned") => last_call' = last_call

\* C9: for a coroutine function, a permitted invocation has stored its now to
\* last_call when it hands out the coroutine, before the body has run; the
\* coroutine completing, failing or being cancelled does not change last_call;
\* and a non-forced invocation made while it is in flight, within throttle_time of
\* its start, is throttled.
C9_StampedAtInitiation == []C9_Inv /\ [][C9_Step]_vars

\* a coroutine is in flight and a non-forced invocation within throttle_time of
\* its start is on the throttled branch
C9_Witness ==
    /\ opKind = "async"
    /\ \E p \in Callers : \E q \in Callers \ {p} :
          /\ InFlight(p) /\ pc[q] = "L171" /\ ~ForceAsked(q)
          /\ now[q] - stored[p] >= 0 /\ now[q] - stored[p] <= throttle_time
          /\ last_call = stored[p]

C10_Inv ==
    \A q \in Callers :
       (pc[q] \in PastGuardPcs /\ ~ForceAsked(q) /\ lastForcedOK # Unset) =>
           now[q] - lastForcedOK > throttle_time

C10_Step ==
    /\ \A p \in Callers :
          (pc[p] = "L168" /\ pc'[p] # "L168" /\ ForceAsked(p)) =>
              last_call' = now[p] /\ lastForcedOK = now[p]
    /\ last_call' # last_call =>
          \E p \in Callers :
             /\ pc[p] = "L168" /\ pc'[p] = "L169"
             /\ ForceAsked(p) \/ last_call_delta[p] > throttle_time

\* C10: callers using the wrapper one at a time: after a forced invocation at t
\* whose method call returned, every non-forced invocation at t' with
\* t' - t <= throttle_time is throttled, and last_call is t from the forced
\* invocation's store until the store of the next permitted invocation.
C10_ForcedRestartsWindow == []C10_Inv /\ [][C10_Step]_vars

\* a forced invocation made inside the window of an earlier non-forced execution
\* has restarted the window: a later non-forced invocation, outside the old
\* window and inside the new one, is on the throttled branch
C10_Witness ==
    \E q \in Callers :
       /\ pc[q] = "L171" /\ ~ForceAsked(q)
       /\ lastNF # Unset /\ lastForcedOK # Unset
       /\ lastForcedOK - lastNF > 0 /\ lastForcedOK - lastNF <= throttle_time
       /\ now[q] - lastNF > throttle_time
       /\ now[q] - lastForcedOK <= throttle_time
       /\ last_call = lastForcedOK

====
